---- MODULE Spec2Model ----
(***************************************************************************)
(* State-machine model of src/proxy_server.py: the NSE relay built on      *)
(* http.server.HTTPServer with the request handler NSEProxyHandler.        *)
(*                                                                         *)
(* HTTPServer is the single-threaded socketserver.TCPServer: serve_forever *)
(* accepts one connection, constructs one NSEProxyHandler for it, runs the *)
(* handler to completion and only then accepts the next connection.  The   *)
(* handler speaks HTTP/1.0 (BaseHTTPRequestHandler.protocol_version), so   *)
(* one handler instance serves exactly one request.  Strings are modelled  *)
(* as sequences of one-character strings.                                  *)
(***************************************************************************)
EXTENDS Integers, Sequences, FiniteSets, TLC

(***************************************************************************)
(* Bounds of the model.                                                    *)
(***************************************************************************)
\* Process restarts (specification SpecRuns).
MaxRestarts == 1
\* Clock ticks (specification Spec).
MaxTicks == 2
\* Length of the symbol parameter (specification SpecOne).
MaxSymLen == 4
\* Clock values on each side of the refresh interval (specification
\* SpecSession).
MaxSkew == 2

(***************************************************************************)
(* Program constants.                                                      *)
(***************************************************************************)
\* self.cookie_refresh_interval
cookie_refresh_interval == 300
\* symbols[:500]
SymbolsLimit == 500
\* data['data'][:20]
TopLimit == 20

\* Seconds the clock advances in one tick of the main specification: half
\* the refresh interval, so that 0, 150, 300 and 450 seconds after a refresh
\* are all seen.
TickStep == cookie_refresh_interval \div 2
\* The clock when the process starts: 2023-11-13 00:00:00 UTC, a Monday,
\* 19674 days after 1970-01-01.
StartClock == 19674 * 86400

(***************************************************************************)
(* Strings.                                                                *)
(***************************************************************************)
\* str.upper() on the letters used by the model
UpperChar(c) ==
    CASE c = "a" -> "A"
      [] c = "b" -> "B"
      [] c = "c" -> "C"
      [] c = "n" -> "N"
      [] c = "s" -> "S"
      [] c = "t" -> "T"
      [] OTHER -> c

Upper(s) == [i \in 1..Len(s) |-> UpperChar(s[i])]

StartsWith(s, p) ==
    /\ Len(s) >= Len(p)
    /\ SubSeq(s, 1, Len(p)) = p

EndsWith(s, p) ==
    /\ Len(s) >= Len(p)
    /\ SubSeq(s, Len(s) - Len(p) + 1, Len(s)) = p

\* str.replace(old, ""): every non-overlapping occurrence of old, scanning
\* from the left, is removed.
RECURSIVE RemoveAll(_, _)
RemoveAll(s, old) ==
    IF s = <<>> THEN <<>>
    ELSE IF StartsWith(s, old)
         THEN RemoveAll(SubSeq(s, Len(old) + 1, Len(s)), old)
         ELSE <<Head(s)>> \o RemoveAll(Tail(s), old)

DotNS == <<".", "N", "S">>

\* symbol.upper().replace('.NS', '')
NormalizeSymbol(s) == RemoveAll(Upper(s), DotNS)

(***************************************************************************)
(* hash(symbol).  CPython hashes a str with a keyed hash whose key is      *)
(* drawn when the interpreter starts (hash randomisation); hash("") is 0   *)
(* whatever the key.  The keyed hash is modelled by a polynomial hash that *)
(* starts from the process's key; the result is a signed machine integer.  *)
(***************************************************************************)
HashModulus == 2 ^ 24

HashSeeds == {7919, 104729}

CharCode(c) ==
    CASE c = "." -> 46
      [] c = " " -> 32
      [] c = "A" -> 65
      [] c = "B" -> 66
      [] c = "C" -> 67
      [] c = "N" -> 78
      [] c = "S" -> 83
      [] c = "T" -> 84
      [] c = "a" -> 97
      [] c = "b" -> 98
      [] c = "c" -> 99
      [] c = "n" -> 110
      [] c = "s" -> 115
      [] c = "t" -> 116
      [] OTHER -> 63

RECURSIVE HashMix(_, _)
HashMix(h, s) ==
    IF s = <<>> THEN h
    ELSE HashMix((h * 31 + CharCode(Head(s))) % HashModulus, Tail(s))

HashStr(seed, s) ==
    IF s = <<>> THEN 0
    ELSE LET u == HashMix(seed, s)
             v == IF u >= HashModulus \div 2 THEN u - HashModulus ELSE u
         IN  IF v = -1 THEN -2 ELSE v

Limited == <<" ", "L", "i", "m", "i", "t", "e", "d">>

\* fallback_data with the company name written into the symbol field
QuoteFallbackMixedUp(symbol, seed) ==
    LET H == HashStr(seed, symbol)
    IN  [symbol |-> symbol \o Limited,
         companyName |-> symbol \o Limited,
         lastPrice |-> 1000 + (H % 1000),
         change |-> (H % 100) - 50,
         pChange |-> << (H % 100) - 50, 10 >>,
         totalTradedVolume |-> (H % 1000000) + 100000]

\* fallback_data of handle_stock_quote; pChange is the quotient
\* change / 10, kept as <<numerator, denominator>>.
QuoteFallback(symbol, seed) ==
    LET H == HashStr(seed, symbol)
    IN  [symbol |-> symbol,
         companyName |-> symbol \o Limited,
         lastPrice |-> 1000 + (H % 1000),
         change |-> (H % 100) - 50,
         pChange |-> << (H % 100) - 50, 10 >>,
         totalTradedVolume |-> (H % 1000000) + 100000]

(***************************************************************************)
(* The session fields of a handler and the two tests made on them.         *)
(***************************************************************************)
\* get_nse_cookies: not self.nse_cookies or (time.time() -
\* self.last_cookie_update) > self.cookie_refresh_interval
NeedsRefresh(cookies, last, now) ==
    \/ cookies = <<>>
    \/ (now - last) > cookie_refresh_interval

\* handle_health: bool(self.nse_cookies and (time.time() -
\* self.last_cookie_update) < self.cookie_refresh_interval)
CookiesValid(cookies, last, now) ==
    /\ cookies # <<>>
    /\ (now - last) < cookie_refresh_interval

\* One piece of a joined string: an empty piece adds no character.
Piece(p) == IF p = "" THEN <<>> ELSE <<p>>

\* '; '.join(parts)
RECURSIVE JoinSemi(_)
JoinSemi(parts) ==
    IF parts = <<>> THEN <<>>
    ELSE IF Len(parts) = 1 THEN Piece(parts[1])
         ELSE Piece(parts[1]) \o <<"; ">> \o JoinSemi(Tail(parts))

\* [cookie.split(';')[0] for cookie in set_cookies]: a Set-Cookie header is
\* the sequence of its ';'-separated segments.
FirstSegments(set_cookies) ==
    [i \in 1..Len(set_cookies) |-> Head(set_cookies[i])]

CookieString(set_cookies) == JoinSemi(FirstSegments(set_cookies))

(***************************************************************************)
(* The market-hours rule of handle_market_status's fallback.               *)
(***************************************************************************)
\* datetime.datetime.now(): the host's wall clock, in seconds; the host's
\* time zone is UTC.
LocalNow(t) == t

\* now + timedelta(hours=5, minutes=30)
IstNow(t) == LocalNow(t) + (5 * 60 + 30) * 60

HourOf(t) == (t \div 3600) % 24

\* datetime.weekday(): 0 is Monday; 1970-01-01 was a Thursday
WeekdayOf(t) == ((t \div 86400) + 3) % 7

\* 0 <= day <= 4 and 9 <= hour < 16
IsMarketHours(t) ==
    LET hour == HourOf(IstNow(t))
        day == WeekdayOf(IstNow(t))
    IN  (0 <= day /\ day <= 4) /\ (9 <= hour /\ hour < 16)

MarketFallback(t) ==
    [marketState |-> <<
        [market |-> "Capital Market",
         marketStatus |-> IF IsMarketHours(t) THEN "Open" ELSE "Closed",
         tradeDate |-> IstNow(t) \div 86400,
         index |-> "NIFTY 50"] >>]

(***************************************************************************)
(* Upstream answers.  A JSON value is described by what the handlers test  *)
(* of it: its type, whether it has a 'data' member, whether that member is *)
(* a list, and the list's items (a dict with or without 'symbol', a dict   *)
(* whose 'meta' is no dict, or a value that is no dict).                   *)
(***************************************************************************)
ItemTcs == [dict |-> TRUE, hasSymbol |-> TRUE, symbol |-> "TCS", metaIsDict |-> TRUE]

ItemNoSymbol == [dict |-> TRUE, hasSymbol |-> FALSE, symbol |-> "", metaIsDict |-> TRUE]

\* {"symbol": "TCS", "meta": 5}
ItemBadMeta == [dict |-> TRUE, hasSymbol |-> TRUE, symbol |-> "TCS", metaIsDict |-> FALSE]

ItemNumber == [dict |-> FALSE, hasSymbol |-> FALSE, symbol |-> "", metaIsDict |-> FALSE]

JsonNone == [type |-> "none", hasData |-> FALSE, dataIsList |-> FALSE, items |-> <<>>]

JsonValues ==
    { [type |-> "object", hasData |-> TRUE, dataIsList |-> TRUE,
       items |-> <<ItemTcs, ItemNoSymbol>>],
      [type |-> "object", hasData |-> TRUE, dataIsList |-> TRUE,
       items |-> <<ItemTcs, ItemNumber>>],
      [type |-> "object", hasData |-> TRUE, dataIsList |-> TRUE,
       items |-> <<ItemBadMeta>>],
      [type |-> "object", hasData |-> TRUE, dataIsList |-> FALSE, items |-> <<>>],
      [type |-> "object", hasData |-> FALSE, dataIsList |-> FALSE, items |-> <<>>],
      [type |-> "array", hasData |-> FALSE, dataIsList |-> FALSE, items |-> <<>>],
      [type |-> "number", hasData |-> FALSE, dataIsList |-> FALSE, items |-> <<>>] }

\* What urlopen(url) and json.loads do in make_nse_request: parsed JSON, a
\* body that is no JSON, an HTTPError, or a timeout.
FetchOutcomes ==
    { [tag |-> "ok", code |-> 200, json |-> j] : j \in JsonValues }
    \cup { [tag |-> "malformed", code |-> 200, json |-> JsonNone] }
    \cup { [tag |-> "http", code |-> c, json |-> JsonNone] : c \in {403, 451, 500} }
    \cup { [tag |-> "timeout", code |-> 0, json |-> JsonNone] }

\* What urlopen('https://www.nseindia.com/') does in get_nse_cookies: a
\* response with its Set-Cookie headers, an HTTPError, or a timeout.
SetCookieLists ==
    { <<>>,
      << <<"nsit=a", " Path=/">> >>,
      << <<"nsit=a", " Path=/">>, <<"nseappid=b">> >>,
      << <<"", " Path=/">> >> }

RefreshOutcomes ==
    { [tag |-> "ok", code |-> 200, set_cookies |-> h] : h \in SetCookieLists }
    \cup { [tag |-> "http", code |-> c, set_cookies |-> <<>>] : c \in {403, 500} }
    \cup { [tag |-> "timeout", code |-> 0, set_cookies |-> <<>>] }

\* e.code in [403, 451]
IsAuthError(o) == o.tag = "http" /\ o.code \in {403, 451}

\* make_nse_request returns data (otherwise it raises)
FetchReturnsData(o) == o.tag = "ok"

Take(s, n) == SubSeq(s, 1, IF Len(s) < n THEN Len(s) ELSE n)

\* 'data' in data and isinstance(data['data'], list); on a number the test
\* itself raises TypeError
HasDataList(data) ==
    /\ data.type = "object"
    /\ data.hasData
    /\ data.dataIsList

IsDict(item) == item.dict

ItemHasSymbol(item) == item.hasSymbol

\* handle_symbols: the try block raises
SymbolsRaises(data) ==
    \/ ~HasDataList(data)
    \/ \E i \in 1..Len(data.items) : ~IsDict(data.items[i])

\* {"symbols": symbols[:500]}
SymbolsBody(data) ==
    LET withSymbol == SelectSeq(data.items, ItemHasSymbol)
        symbols == [i \in 1..Len(withSymbol) |-> withSymbol[i].symbol]
    IN  [symbols |-> Take(symbols, SymbolsLimit)]

fallback_symbols ==
    << "RELIANCE", "TCS", "HDFCBANK", "INFY", "HINDUNILVR", "ICICIBANK", "KOTAKBANK",
       "BHARTIARTL", "ITC", "SBIN", "LT", "ASIANPAINT", "AXISBANK", "MARUTI", "BAJFINANCE",
       "HCLTECH", "DMART", "SUNPHARMA", "TITAN", "ULTRACEMCO", "NESTLEIND", "WIPRO",
       "ADANIENT", "JSWSTEEL", "POWERGRID", "TATAMOTORS", "NTPC", "COALINDIA", "ONGC" >>

\* handle_top_stocks: the try block raises (item.get on a value that is no
\* dict, or .get on a 'meta' that is no dict)
TopStocksRaises(data) ==
    \/ ~HasDataList(data)
    \/ \E i \in 1..Len(Take(data.items, TopLimit)) :
          ~IsDict(data.items[i]) \/ ~data.items[i].metaIsDict

TopStock(item) ==
    [symbol |-> IF item.hasSymbol THEN item.symbol ELSE "",
     name |-> IF item.hasSymbol THEN item.symbol ELSE "",
     price |-> 0, change |-> 0, changePercent |-> 0, volume |-> 0,
     marketCap |-> "N/A"]

\* {"stocks": stocks}
TopStocksBody(data) ==
    LET first == Take(data.items, TopLimit)
    IN  [stocks |-> [i \in 1..Len(first) |-> TopStock(first[i])]]

(***************************************************************************)
(* The response writer.  send_response(code) appends the status line       *)
(* "HTTP/1.0 <code> ..." to the header buffer, end_headers flushes the     *)
(* buffer, and the client takes the first line it receives as the status   *)
(* line.  A response is the status lines written, in order, whether the    *)
(* CORS headers were written, where the body came from, and the body.      *)
(***************************************************************************)
\* send_cors_headers: self.send_response(200) and the four headers
send_cors_headers == [lines |-> <<200>>, cors |-> TRUE]

send_json_response(data, status_code, kind) ==
    LET h == send_cors_headers
    IN  [lines |-> IF status_code # 200 THEN Append(h.lines, status_code) ELSE h.lines,
         cors |-> h.cors,
         kind |-> kind,
         body |-> data]

\* BaseHTTPRequestHandler.send_error(code, message)
send_error(code, message) ==
    [lines |-> <<code>>, cors |-> FALSE, kind |-> "error", body |-> [error |-> message]]

NoResponse == [lines |-> <<0>>, cors |-> FALSE, kind |-> "none", body |-> [none |-> TRUE]]

\* The client's connection was closed without any response
ConnectionReset == [lines |-> <<0>>, cors |-> FALSE, kind |-> "reset", body |-> [none |-> TRUE]]

\* The status the client receives
Status(resp) == Head(resp.lines)

(***************************************************************************)
(* Requests.                                                               *)
(***************************************************************************)
NoParam == [present |-> FALSE, value |-> <<>>]

Param(v) == [present |-> TRUE, value |-> v]

\* urllib.parse.parse_qs drops a parameter whose value is blank, so
\* params.get('symbol', [None])[0] is None for "symbol=" as for no symbol.
ParsedSymbol(query) ==
    IF query.present /\ query.value # <<>> THEN query ELSE NoParam

\* The symbol parameters sent in the main specification
QuoteParams ==
    { NoParam,
      Param(<<>>),
      Param(<<"t", "c", ".", "n", "s">>),
      Param(<<".", "N", "S">>),
      Param(<<"A", ".", "N", "S", "B">>) }

DataRoutes == {"quote", "symbols", "market-status", "top-stocks"}

Requests ==
    { [method |-> "GET", route |-> "quote", query |-> q] : q \in QuoteParams }
    \cup { [method |-> "GET", route |-> r, query |-> NoParam] :
              r \in {"symbols", "market-status", "top-stocks", "health", "other"} }
    \cup { [method |-> "OPTIONS", route |-> "other", query |-> NoParam] }

NoRequest == [method |-> "none", route |-> "none", query |-> NoParam]

NoOutcome == [tag |-> "none", code |-> 0]

NoFetch == [tag |-> "none", code |-> 0, json |-> JsonNone]

\* What one request made the server send upstream, and what came of it
NoLog == [refresh |-> 0, fetch |-> 0, clears |-> 0, outcome |-> NoOutcome, run |-> 0]

\* The requests of a behaviour, numbered in the order they arrive: two
\* clients, each sending one request.
Ids == {1, 2}

(***************************************************************************)
(* State.                                                                  *)
(***************************************************************************)
VARIABLES
    clock,               \* time.time(), in whole seconds
    hashseed,            \* the running interpreter's string-hash key
    runs,                \* process restarts so far
    arrived,             \* requests that have arrived so far
    requests,            \* id -> the request a client sent
    backlog,             \* ids of the connections waiting to be accepted
    cur,                 \* id the running handler serves, 0 when none runs
    pc,                  \* where the running handler is
    nse_cookies,         \* self.nse_cookies of the running handler
    last_cookie_update,  \* self.last_cookie_update of the running handler
    symbol,              \* handle_stock_quote's local symbol
    sentCookie,          \* the Cookie header of the handler's data fetch
    fetched,             \* what make_nse_request returned or raised
    responses,           \* id -> the response the client received
    log,                 \* id -> the upstream traffic of the request
    together,            \* pairs of ids that were in flight at the same time
    lastRefresh          \* when this process last stored a non-empty cookie that
                         \* no 403/451 has cleared since, 0 when there is none

vars ==
    << clock, hashseed, runs, arrived, requests, backlog, cur, pc, nse_cookies,
       last_cookie_update, symbol, sentCookie, fetched, responses, log, together,
       lastRefresh >>

\* NSEProxyHandler.__init__: every handler instance starts with these
InitCookies == <<>>

InitLastUpdate == 0

NoRefresh == InitLastUpdate

\* Requests that arrived and are not answered yet
InFlight == { i \in Ids : i <= arrived /\ responses[i] = NoResponse }

Init ==
    /\ clock = StartClock
    /\ hashseed \in HashSeeds
    /\ runs = 0
    /\ arrived = 0
    /\ requests = [i \in Ids |-> NoRequest]
    /\ backlog = <<>>
    /\ cur = 0
    /\ pc = "idle"
    /\ nse_cookies = InitCookies
    /\ last_cookie_update = InitLastUpdate
    /\ symbol = <<>>
    /\ sentCookie = <<>>
    /\ fetched = NoFetch
    /\ responses = [i \in Ids |-> NoResponse]
    /\ log = [i \in Ids |-> NoLog]
    /\ together = {}
    /\ lastRefresh = NoRefresh

(***************************************************************************)
(* The environment: time passes, clients connect, the process restarts.    *)
(***************************************************************************)
Tick ==
    /\ clock + TickStep <= StartClock + MaxTicks * TickStep
    /\ clock' = clock + TickStep
    /\ UNCHANGED << hashseed, runs, arrived, requests, backlog, cur, pc, nse_cookies,
                    last_cookie_update, symbol, sentCookie, fetched, responses, log, together,
                    lastRefresh >>

\* A client connects and sends a request; the connection waits in the
\* listen queue until serve_forever accepts it.
ArriveOf(R) ==
    /\ arrived < Cardinality(Ids)
    /\ \E r \in R :
          requests' = [requests EXCEPT ![arrived + 1] = r]
    /\ arrived' = arrived + 1
    /\ backlog' = Append(backlog, arrived + 1)
    /\ together' = together \cup { {i, arrived + 1} : i \in InFlight }
    /\ UNCHANGED << clock, hashseed, runs, cur, pc, nse_cookies, last_cookie_update,
                    symbol, sentCookie, fetched, responses, log, lastRefresh >>

Arrive == ArriveOf(Requests)

\* The process is stopped and started again: a new interpreter with a new
\* hash key; waiting and running requests are dropped unanswered.
Restart ==
    /\ runs < MaxRestarts
    /\ runs' = runs + 1
    /\ hashseed' \in HashSeeds
    /\ responses' = [i \in Ids |-> IF i \in InFlight THEN ConnectionReset ELSE responses[i]]
    /\ backlog' = <<>>
    /\ cur' = 0
    /\ pc' = "idle"
    /\ nse_cookies' = InitCookies
    /\ last_cookie_update' = InitLastUpdate
    /\ symbol' = <<>>
    /\ sentCookie' = <<>>
    /\ fetched' = NoFetch
    /\ lastRefresh' = NoRefresh
    /\ UNCHANGED << clock, arrived, requests, log, together >>

(***************************************************************************)
(* What each data handler answers once make_nse_request has returned or    *)
(* raised: the try block's response, or the except block's fallback.       *)
(***************************************************************************)
\* handle_stock_quote, lines 150-167
QuoteResult(o, sym, seed) ==
    IF FetchReturnsData(o)
    THEN send_json_response(o.json, 200, "real")
    ELSE send_json_response(QuoteFallback(sym, seed), 200, "fallback")

\* handle_symbols, lines 173-193
SymbolsResult(o) ==
    IF FetchReturnsData(o) /\ ~SymbolsRaises(o.json)
    THEN send_json_response(SymbolsBody(o.json), 200, "real")
    ELSE send_json_response([symbols |-> fallback_symbols], 200, "fallback")

\* handle_market_status, lines 199-225
MarketStatusResult(o, now) ==
    IF FetchReturnsData(o)
    THEN send_json_response(o.json, 200, "real")
    ELSE send_json_response(MarketFallback(now), 200, "fallback")

\* handle_top_stocks without its except clause: the exception reaches do_GET
TopStocksResultUncaught(o) ==
    IF FetchReturnsData(o) /\ ~TopStocksRaises(o.json)
    THEN send_json_response(TopStocksBody(o.json), 200, "real")
    ELSE send_error(500, "Internal server error")

\* handle_top_stocks, lines 231-255
TopStocksResult(o) ==
    IF FetchReturnsData(o) /\ ~TopStocksRaises(o.json)
    THEN send_json_response(TopStocksBody(o.json), 200, "real")
    ELSE send_json_response([stocks |-> <<>>], 200, "fallback")

HandlerResult(route, o, sym, seed, now) ==
    CASE route = "quote" -> QuoteResult(o, sym, seed)
      [] route = "symbols" -> SymbolsResult(o)
      [] route = "market-status" -> MarketStatusResult(o, now)
      [] route = "top-stocks" -> TopStocksResult(o)

\* the cookie cleared on every HTTPError, not only on 403 and 451
CookiesAfterFetchAnyHttpError(cookies, o) ==
    IF o.tag = "http" THEN <<>> ELSE cookies

\* make_nse_request's except clauses: self.nse_cookies after the data fetch
CookiesAfterFetch(cookies, o) ==
    IF IsAuthError(o) THEN <<>> ELSE cookies

(***************************************************************************)
(* The server.                                                             *)
(***************************************************************************)
\* The handler writes its response and returns; the handler instance is
\* dropped and serve_forever goes on.
Respond(resp) ==
    /\ responses' = [responses EXCEPT ![cur] = resp]
    /\ pc' = "idle"
    /\ cur' = 0
    /\ nse_cookies' = InitCookies
    /\ last_cookie_update' = InitLastUpdate
    /\ symbol' = <<>>
    /\ sentCookie' = <<>>
    /\ fetched' = NoFetch

\* serve_forever accepts the next connection and constructs its handler:
\* __init__ sets the session fields, then the request line is read.
Accept ==
    /\ pc = "idle"
    /\ backlog # <<>>
    /\ cur' = Head(backlog)
    /\ backlog' = Tail(backlog)
    /\ nse_cookies' = InitCookies
    /\ last_cookie_update' = InitLastUpdate
    /\ log' = [log EXCEPT ![Head(backlog)].run = runs]
    /\ pc' = "dispatch"
    /\ UNCHANGED << clock, hashseed, runs, arrived, requests, symbol, sentCookie,
                    fetched, responses, together, lastRefresh >>

do_OPTIONS ==
    /\ pc = "dispatch"
    /\ requests[cur].method = "OPTIONS"
    /\ Respond([lines |-> send_cors_headers.lines, cors |-> send_cors_headers.cors,
                kind |-> "preflight", body |-> [none |-> TRUE]])
    /\ UNCHANGED << clock, hashseed, runs, arrived, requests, backlog, log, together,
                    lastRefresh >>

\* do_GET's else branch
do_GET_unknown ==
    /\ pc = "dispatch"
    /\ requests[cur].method = "GET"
    /\ requests[cur].route = "other"
    /\ Respond(send_error(404, "Endpoint not found"))
    /\ UNCHANGED << clock, hashseed, runs, arrived, requests, backlog, log, together,
                    lastRefresh >>

HealthBody(cookies, last, now) ==
    [status |-> "ok",
     timestamp |-> now,
     cookiesLastUpdated |-> IF last # 0 THEN [null |-> FALSE, at |-> last]
                            ELSE [null |-> TRUE, at |-> 0],
     cookiesValid |-> CookiesValid(cookies, last, now)]

handle_health ==
    /\ pc = "dispatch"
    /\ requests[cur].method = "GET"
    /\ requests[cur].route = "health"
    /\ Respond(send_json_response(HealthBody(nse_cookies, last_cookie_update, clock),
                                  200, "health"))
    /\ UNCHANGED << clock, hashseed, runs, arrived, requests, backlog, log, together,
                    lastRefresh >>

\* handle_stock_quote up to the call of make_nse_request
handle_stock_quote ==
    /\ pc = "dispatch"
    /\ requests[cur].method = "GET"
    /\ requests[cur].route = "quote"
    /\ LET q == ParsedSymbol(requests[cur].query)
       IN  IF ~q.present
           THEN Respond(send_json_response([error |-> "symbol parameter is required"],
                                           400, "error"))
           ELSE /\ symbol' = NormalizeSymbol(q.value)
                /\ pc' = "get_nse_cookies"
                /\ UNCHANGED << responses, cur, nse_cookies, last_cookie_update,
                                sentCookie, fetched >>
    /\ UNCHANGED << clock, hashseed, runs, arrived, requests, backlog, log, together,
                    lastRefresh >>

\* handle_symbols, handle_market_status, handle_top_stocks up to the call
\* of make_nse_request
EnterMakeNseRequest(route) ==
    /\ pc = "dispatch"
    /\ requests[cur].method = "GET"
    /\ requests[cur].route = route
    /\ pc' = "get_nse_cookies"
    /\ UNCHANGED << clock, hashseed, runs, arrived, requests, backlog, cur, nse_cookies,
                    last_cookie_update, symbol, sentCookie, fetched, responses, log, together,
                    lastRefresh >>

handle_symbols == EnterMakeNseRequest("symbols")

handle_market_status == EnterMakeNseRequest("market-status")

handle_top_stocks == EnterMakeNseRequest("top-stocks")

\* get_nse_cookies' test: either the GET of the upstream root page is sent,
\* or get_nse_cookies returns and the data fetch is sent with the stored
\* cookie.
get_nse_cookies ==
    /\ pc = "get_nse_cookies"
    /\ IF NeedsRefresh(nse_cookies, last_cookie_update, clock)
       THEN /\ pc' = "refresh"
            /\ log' = [log EXCEPT ![cur].refresh = @ + 1]
            /\ UNCHANGED sentCookie
       ELSE /\ pc' = "fetch"
            /\ log' = [log EXCEPT ![cur].fetch = @ + 1]
            /\ sentCookie' = nse_cookies
    /\ UNCHANGED << clock, hashseed, runs, arrived, requests, backlog, cur, nse_cookies,
                    last_cookie_update, symbol, fetched, responses, together,
                    lastRefresh >>

\* The refresh GET ends; get_nse_cookies stores the cookie or logs the
\* failure, and make_nse_request sends the data fetch.
RefreshReturn ==
    /\ pc = "refresh"
    /\ \E o \in RefreshOutcomes :
          IF o.tag = "ok"
          THEN /\ nse_cookies' = CookieString(o.set_cookies)
               /\ last_cookie_update' = clock
               /\ lastRefresh' = IF CookieString(o.set_cookies) # <<>>
                                 THEN clock ELSE lastRefresh
          ELSE UNCHANGED << nse_cookies, last_cookie_update, lastRefresh >>
    /\ sentCookie' = nse_cookies'
    /\ log' = [log EXCEPT ![cur].fetch = @ + 1]
    /\ pc' = "fetch"
    /\ UNCHANGED << clock, hashseed, runs, arrived, requests, backlog, cur, symbol,
                    fetched, responses, together >>

\* The data fetch ends: make_nse_request returns the parsed JSON or raises,
\* clearing the cookie on 403 and 451.
FetchReturn ==
    /\ pc = "fetch"
    /\ \E o \in FetchOutcomes :
          /\ fetched' = o
          /\ nse_cookies' = CookiesAfterFetch(nse_cookies, o)
          /\ log' = [log EXCEPT ![cur].clears = IF IsAuthError(o) THEN @ + 1 ELSE @,
                                ![cur].outcome = [tag |-> o.tag, code |-> o.code]]
          /\ lastRefresh' = IF IsAuthError(o) THEN NoRefresh ELSE lastRefresh
    /\ pc' = "answer"
    /\ UNCHANGED << clock, hashseed, runs, arrived, requests, backlog, cur,
                    last_cookie_update, symbol, sentCookie, responses, together >>

\* The handler's try block ends or its except block runs: the response is
\* written.
Answer ==
    /\ pc = "answer"
    /\ Respond(HandlerResult(requests[cur].route, fetched, symbol, hashseed, clock))
    /\ UNCHANGED << clock, hashseed, runs, arrived, requests, backlog, log, together,
                    lastRefresh >>

Next ==
    \/ Tick
    \/ Arrive
    \/ Accept
    \/ do_OPTIONS
    \/ do_GET_unknown
    \/ handle_health
    \/ handle_stock_quote
    \/ handle_symbols
    \/ handle_market_status
    \/ handle_top_stocks
    \/ get_nse_cookies
    \/ RefreshReturn
    \/ FetchReturn
    \/ Answer

Spec == Init /\ [][Next]_vars

(***************************************************************************)
(* SpecOne: one request, drawn from every route and every symbol parameter *)
(* up to MaxSymLen characters, is waiting when the server starts.          *)
(***************************************************************************)
SymAlphabet == {".", "n", "s", "N", "S", "b"}

SymbolStrings == UNION { [1..k -> SymAlphabet] : k \in 0..MaxSymLen }

RequestsOne ==
    { [method |-> "GET", route |-> "quote", query |-> Param(v)] : v \in SymbolStrings }
    \cup Requests

\* Request 1 is r and waits in the listen queue; the server is idle.
Waiting(r) ==
    /\ hashseed \in HashSeeds
    /\ runs = 0
    /\ arrived = 1
    /\ requests = [i \in Ids |-> IF i = 1 THEN r ELSE NoRequest]
    /\ backlog = <<1>>
    /\ cur = 0
    /\ pc = "idle"
    /\ nse_cookies = InitCookies
    /\ last_cookie_update = InitLastUpdate
    /\ symbol = <<>>
    /\ sentCookie = <<>>
    /\ fetched = NoFetch
    /\ responses = [i \in Ids |-> NoResponse]
    /\ log = [i \in Ids |-> NoLog]
    /\ together = {}
    /\ lastRefresh = NoRefresh

InitOne ==
    /\ clock = StartClock
    /\ \E r \in RequestsOne : Waiting(r)

Serve ==
    \/ Accept
    \/ get_nse_cookies
    \/ RefreshReturn
    \/ FetchReturn
    \/ Answer

NextOne ==
    \/ do_OPTIONS
    \/ do_GET_unknown
    \/ handle_health
    \/ handle_stock_quote
    \/ handle_symbols
    \/ handle_market_status
    \/ handle_top_stocks
    \/ Serve

SpecOne == InitOne /\ [][NextOne]_vars

(***************************************************************************)
(* SpecMarket: one market-status request, at every minute of a week.       *)
(***************************************************************************)
MinutesPerWeek == 7 * 24 * 60

MarketStatusRequest == [method |-> "GET", route |-> "market-status", query |-> NoParam]

InitMarket ==
    /\ clock \in { StartClock + 60 * m : m \in 0..(MinutesPerWeek - 1) }
    /\ Waiting(MarketStatusRequest)

NextMarket ==
    \/ handle_market_status
    \/ Serve

SpecMarket == InitMarket /\ [][NextMarket]_vars

(***************************************************************************)
(* SpecSession: get_nse_cookies as a function of the session fields.  A    *)
(* handler enters make_nse_request with its fields in any state (no cookie *)
(* or a stored one, never stored or stored at StartClock), at clock values *)
(* on each side of the refresh interval.  Under Spec every handler enters  *)
(* with the fields as __init__ left them.                                  *)
(***************************************************************************)
SessionCookies == { <<>>, <<"nsit=a">> }

SessionSkews ==
    (0..MaxSkew)
    \cup ((cookie_refresh_interval - MaxSkew)..(cookie_refresh_interval + MaxSkew))

SessionRequests ==
    { [method |-> "GET", route |-> r, query |-> NoParam] :
        r \in {"symbols", "market-status", "top-stocks"} }

InitSession ==
    /\ hashseed \in HashSeeds
    /\ runs = 0
    /\ arrived = 1
    /\ \E r \in SessionRequests :
          requests = [i \in Ids |-> IF i = 1 THEN r ELSE NoRequest]
    /\ backlog = <<>>
    /\ cur = 1
    /\ pc = "get_nse_cookies"
    /\ nse_cookies \in SessionCookies
    /\ last_cookie_update \in {InitLastUpdate, StartClock}
    /\ clock \in { StartClock + d : d \in SessionSkews }
    /\ symbol = <<>>
    /\ sentCookie = <<>>
    /\ fetched = NoFetch
    /\ responses = [i \in Ids |-> NoResponse]
    /\ log = [i \in Ids |-> NoLog]
    /\ together = {}
    /\ lastRefresh = NoRefresh

NextSession ==
    \/ get_nse_cookies
    \/ RefreshReturn
    \/ FetchReturn
    \/ Answer

SpecSession == InitSession /\ [][NextSession]_vars

(***************************************************************************)
(* SpecRuns: quote requests across a restart of the process.               *)
(***************************************************************************)
QuoteRequests ==
    { [method |-> "GET", route |-> "quote", query |-> q] : q \in QuoteParams }

ArriveQuote == ArriveOf(QuoteRequests)

NextRuns ==
    \/ ArriveQuote
    \/ Restart
    \/ handle_stock_quote
    \/ Serve

SpecRuns == Init /\ [][NextRuns]_vars

(***************************************************************************)
(* Properties.                                                             *)
(***************************************************************************)
Answered(i) == responses[i].kind \notin {"none", "reset"}

IsQuote(r) == r.method = "GET" /\ r.route = "quote"

\* The request carries a symbol parameter with at least one character
HasSymbol(r) == r.query.present /\ r.query.value # <<>>

\* A GET to a data route; a quote request carries a non-empty symbol
IsDataRequest(r) ==
    /\ r.method = "GET"
    /\ r.route \in DataRoutes
    /\ (r.route = "quote" => HasSymbol(r))

UpstreamFailed(i) == log[i].outcome.tag \in {"malformed", "http", "timeout"}

AuthRejected(i) == log[i].outcome.tag = "http" /\ log[i].outcome.code = 403

\* C1: every answer to a GET of a data route (a quote with a non-empty
\* symbol, symbols, market-status, top-stocks) has status 200 and carries
\* the upstream's data or the fallback data, whatever the cookie refresh and
\* the data fetch did; no answer is a 5xx.
C1_DataRoutesAnswer200 ==
    \A i \in Ids :
        (IsDataRequest(requests[i]) /\ Answered(i))
            => /\ Status(responses[i]) = 200
               /\ responses[i].kind \in {"real", "fallback"}

\* A top-stocks request whose data fetch failed has been answered 200 with
\* the fallback.
C1_Witness ==
    \E i \in Ids :
        /\ requests[i].route = "top-stocks"
        /\ UpstreamFailed(i)
        /\ Answered(i)
        /\ Status(responses[i]) = 200
        /\ responses[i].kind = "fallback"

\* C2: a GET of the quote route with no symbol parameter, or an empty one,
\* is answered with status 400 and the body {"error": "symbol parameter is
\* required"}, and nothing was sent upstream for it.
C2_MissingSymbol400 ==
    \A i \in Ids :
        (IsQuote(requests[i]) /\ ~HasSymbol(requests[i]) /\ Answered(i))
            => /\ Status(responses[i]) = 400
               /\ responses[i].body = [error |-> "symbol parameter is required"]
               /\ log[i].refresh = 0
               /\ log[i].fetch = 0

HealthStep ==
    /\ pc = "dispatch"
    /\ requests[cur].method = "GET"
    /\ requests[cur].route = "health"
    /\ pc' = "idle"

\* C3: when a health request is answered and this process stored a
\* non-empty cookie (not cleared since) less than 300 seconds ago, the
\* answer has cookiesValid true and a non-null cookiesLastUpdated; when 300
\* seconds or more have passed since, cookiesValid is false.
C3_HealthFollowsRefresh ==
    [][ (HealthStep /\ lastRefresh # NoRefresh)
          => /\ responses'[cur].body.cookiesValid
                  = (clock - lastRefresh < cookie_refresh_interval)
             /\ (clock - lastRefresh < cookie_refresh_interval)
                  => ~responses'[cur].body.cookiesLastUpdated.null ]_vars

\* The two requests were in flight together, both are quote requests, for
\* different symbols, and the upstream answered 403 to the data fetch of i.
ConcurrentQuotes403(i, j) ==
    /\ i # j
    /\ {i, j} \in together
    /\ IsQuote(requests[i]) /\ HasSymbol(requests[i])
    /\ IsQuote(requests[j]) /\ HasSymbol(requests[j])
    /\ NormalizeSymbol(requests[i].query.value) # NormalizeSymbol(requests[j].query.value)
    /\ AuthRejected(i)

\* C4: of two quote requests for different symbols in flight together whose
\* data fetches get 403, each clears the cookie at most once, each is
\* answered 200 with the fallback record of its own symbol, and the data
\* fetch of each carries the cookie its handler holds, a non-empty one only
\* together with the time it was stored.
C4_ConcurrentQuotes ==
    /\ \A i \in Ids : log[i].clears <= 1
    /\ \A i \in Ids : \A j \in Ids :
          (ConcurrentQuotes403(i, j) /\ Answered(i))
              => /\ Status(responses[i]) = 200
                 /\ responses[i].kind = "fallback"
                 /\ responses[i].body.symbol = NormalizeSymbol(requests[i].query.value)
                 /\ responses[i].body.symbol # NormalizeSymbol(requests[j].query.value)
    /\ (pc \in {"fetch", "answer"})
          => /\ (sentCookie # <<>> => last_cookie_update # InitLastUpdate)
             /\ (pc = "fetch" => sentCookie = nse_cookies)

\* Both requests were in flight together, both got 403, and both are
\* answered.
C4_Witness ==
    /\ ConcurrentQuotes403(1, 2)
    /\ ConcurrentQuotes403(2, 1)
    /\ Answered(1)
    /\ Answered(2)
    /\ log[1].clears = 1
    /\ log[2].clears = 1

SameNumbers(a, b) ==
    /\ a.lastPrice = b.lastPrice
    /\ a.change = b.change
    /\ a.pChange = b.pChange
    /\ a.totalTradedVolume = b.totalTradedVolume

IsQuoteFallback(i) ==
    /\ IsQuote(requests[i])
    /\ HasSymbol(requests[i])
    /\ Answered(i)
    /\ responses[i].kind = "fallback"

\* C5: the fallback record of a quote request carries the request's symbol,
\* and two fallback records for the same symbol carry the same numbers, in
\* one process run and across two runs.
C5_FallbackReproducible ==
    \A i \in Ids : \A j \in Ids :
        (/\ IsQuoteFallback(i)
         /\ IsQuoteFallback(j)
         /\ responses[i].body.symbol = responses[j].body.symbol)
            => /\ responses[i].body.symbol = NormalizeSymbol(requests[i].query.value)
               /\ SameNumbers(responses[i].body, responses[j].body)

\* The time of day and the day of the week at UTC+5:30
IstMinuteOfDay(t) == ((t + (5 * 60 + 30) * 60) \div 60) % (24 * 60)

IstWeekday(t) == WeekdayOf(t + (5 * 60 + 30) * 60)

\* Monday to Friday, from 09:15 up to but not including 16:00
TradingHours(t) ==
    /\ IstWeekday(t) <= 4
    /\ 9 * 60 + 15 <= IstMinuteOfDay(t)
    /\ IstMinuteOfDay(t) < 16 * 60

\* C6: the market-status fallback says "Open" exactly when the time at
\* UTC+5:30 is on Monday to Friday, at or after 09:15 and before 16:00, and
\* "Closed" otherwise.
C6_MarketHours ==
    \A i \in Ids :
        (requests[i].route = "market-status" /\ Answered(i)
           /\ responses[i].kind = "fallback")
            => (responses[i].body.marketState[1].marketStatus
                  = IF TradingHours(clock) THEN "Open" ELSE "Closed")

\* C7: a handler that enters get_nse_cookies less than 300 seconds after
\* this process stored a non-empty cookie, with no 403/451 since, sends its
\* data fetch without a refresh GET.
C7_ReuseWithinTtl ==
    [][ (/\ pc = "get_nse_cookies"
         /\ pc' # pc
         /\ lastRefresh # NoRefresh
         /\ clock - lastRefresh < cookie_refresh_interval)
          => /\ pc' = "fetch"
             /\ log'[cur].refresh = 0 ]_vars

\* C8: the step in which the data fetch ends leaves last_cookie_update
\* alone; it empties nse_cookies when the fetch failed with 403 or 451 and
\* leaves nse_cookies alone on every other outcome; after a 403 or 451 the
\* handler still answers with its fallback.
C8_ClearOnlyOnAuthError ==
    [][ /\ (pc = "fetch" /\ pc' = "answer")
            => /\ last_cookie_update' = last_cookie_update
               /\ IF fetched'.tag = "http" /\ fetched'.code \in {403, 451}
                  THEN nse_cookies' = <<>>
                  ELSE nse_cookies' = nse_cookies
        /\ (pc = "answer" /\ pc' = "idle" /\ fetched.tag = "http")
            => responses'[cur].kind = "fallback" ]_vars

\* A stored cookie was sent with the data fetch and a 403 emptied it.
C8_Witness ==
    /\ pc = "answer"
    /\ fetched.tag = "http"
    /\ fetched.code = 403
    /\ sentCookie # <<>>
    /\ nse_cookies = <<>>
    /\ last_cookie_update = clock

SuffixStripped(v) ==
    LET u == Upper(v)
    IN  IF EndsWith(u, DotNS) THEN SubSeq(u, 1, Len(u) - Len(DotNS)) ELSE u

\* C10: the symbol a quote handler uses upstream and echoes is non-empty
\* and is the upper-cased parameter with only a trailing ".NS" removed; a
\* parameter that normalizes to nothing is answered 400.
C10_SymbolNormalized ==
    \A i \in Ids :
        (IsQuote(requests[i]) /\ HasSymbol(requests[i]))
            => /\ (cur = i /\ pc \in {"get_nse_cookies", "refresh", "fetch", "answer"})
                    => /\ symbol # <<>>
                       /\ symbol = SuffixStripped(requests[i].query.value)
               /\ (Answered(i) /\ SuffixStripped(requests[i].query.value) = <<>>)
                    => Status(responses[i]) = 400
               /\ (Answered(i) /\ responses[i].kind = "fallback")
                    => responses[i].body.symbol = SuffixStripped(requests[i].query.value)

====
